---- MODULE Spec2Model ----
(***************************************************************************)
(* Buffer-queue engine of klarity-audio: playback sessions over an OpenAL  *)
(* source with a time-stretch engine, and the registry that maps ids to    *)
(* sessions.  The repository holds several revisions of the engine; the    *)
(* model keeps four of them apart in the variable `variant':               *)
(*   "sampler"  src/src/sampler.cpp with the Media struct of               *)
(*              src/unnamed/part_002 (registry, operations inline)         *)
(*   "pooled"   the registry of src/src/audio.cpp:233-361 forwarding to a  *)
(*              session object coded as in src/unnamed/part_003            *)
(*   "audio"    the Audio object of src/src/audio.cpp:1-232 (no registry:  *)
(*              the caller constructs and destroys the objects)            *)
(*   "stream"   the Media object of src/src/media.cpp:132-383 over a       *)
(*              blocking PortAudio output stream (no registry in the       *)
(*              sources: the caller constructs and destroys the objects)   *)
(* Every public operation holds the object's mutex for its whole body, so  *)
(* each operation is one atomic action; the sink plays buffers in steps of *)
(* its own (Drain).                                                        *)
(***************************************************************************)
EXTENDS Integers, Sequences, FiniteSets, TLC

VARIABLES
    variant,      \* which revision of the engine runs
    mediaPool,    \* Sampler::mediaPool: id -> Media, domain = the ids present
    undefined,    \* a call has ended the process or run into undefined behaviour
    last,         \* the last call: [op, id, res, val]
    staleHeard,   \* history: the sink played a buffer submitted before a stop()
    threads       \* the call each thread of the caller is in: [pc, op, id, arg, locked]

vars == <<variant, mediaPool, undefined, last, staleHeard, threads>>

(***************************************************************************)
(* Bounds of the model.                                                    *)
(***************************************************************************)
MaxBuffers == 2
MaxWarm == 2

Ids == {1, 2}
Variants == {"sampler", "pooled", "audio"}

\* The inputs of the calls.  The first id is called with every input (its
\* sessions have MaxBuffers buffers); the other ids, which are there to show
\* what a call does to a session it does not address, with one input of each
\* kind (their sessions have one buffer).
SampleRates == {22050}
ChannelCounts == {2}
BufferCounts(id) == IF id = 1 THEN {MaxBuffers} ELSE {1}
Sizes(id) == IF id = 1 THEN {0, 8} ELSE {8}
Speeds(id) == IF id = 1 THEN {[n |-> 1, d |-> 1], [n |-> 2, d |-> 1]}
              ELSE {[n |-> 1, d |-> 1]}
\* volumes in tenths: 0.5 and 1.5 for the first id, 1.0 for the others
Volumes(id) == IF id = 1 THEN {5, 15} ELSE {10}

\* The arguments no operation should accept, which the first id is called
\* with as well where every argument is tried: a sample rate of 0, three
\* channels, the speed factors 0 and -1.
AnyFormats(id) ==
    {<<sr, ch>> : sr \in SampleRates, ch \in ChannelCounts}
    \cup (IF id = 1 THEN {<<0, 2>>, <<22050, 3>>} ELSE {})
AnySpeeds(id) ==
    Speeds(id) \cup (IF id = 1 THEN {[n |-> 0, d |-> 1], [n |-> 0 - 1, d |-> 1]} ELSE {})

MIN_BUFFERS_NUM == 3

(***************************************************************************)
(* The OpenAL source, as the code uses it.  A source is                    *)
(* [state, queue, played, gain, stale, lost]: queue holds the frame count  *)
(* of every queued buffer, oldest first; played counts the leading buffers *)
(* the sink has finished while PLAYING or PAUSED; gain is AL_GAIN in       *)
(* tenths; stale (history) counts the leading buffers that were submitted  *)
(* before the last stop(); lost (history) tells whether the last operation *)
(* on the source unqueued a buffer and neither deleted it nor queued it    *)
(* again.                                                                  *)
(***************************************************************************)
alGenSources ==
    [state |-> "INITIAL", queue |-> <<>>, played |-> 0, gain |-> 10, stale |-> 0,
     lost |-> FALSE]

\* alGetSourcei(source, AL_BUFFERS_QUEUED): every queued buffer, played or not
BuffersQueued(src) == Len(src.queue)

\* alGetSourcei(source, AL_BUFFERS_PROCESSED): none on an INITIAL source, all
\* on a STOPPED one, the played ones otherwise
BuffersProcessed(src) ==
    CASE src.state = "INITIAL" -> 0
      [] src.state = "STOPPED" -> Len(src.queue)
      [] OTHER -> src.played

\* alGetSourcei(source, AL_SOURCE_STATE)
SourceState(src) == src.state

\* alSourcePlay: a PAUSED source continues; any other source restarts at the
\* head of its queue, and stops at once when the queue is empty
alSourcePlay(src) ==
    IF src.state = "PAUSED" THEN [src EXCEPT !.state = "PLAYING"]
    ELSE IF Len(src.queue) = 0 THEN [src EXCEPT !.state = "STOPPED", !.played = 0]
    ELSE [src EXCEPT !.state = "PLAYING", !.played = 0]

\* alSourcePause: only a PLAYING source changes
alSourcePause(src) ==
    IF src.state = "PLAYING" THEN [src EXCEPT !.state = "PAUSED"] ELSE src

\* alSourceStop: a PLAYING or PAUSED source becomes STOPPED, which marks
\* every queued buffer processed
alSourceStop(src) ==
    IF src.state \in {"PLAYING", "PAUSED"}
    THEN [src EXCEPT !.state = "STOPPED", !.played = Len(src.queue)]
    ELSE src

\* alSourceQueueBuffers(source, 1, &buffer) with a buffer of `frames' frames
alSourceQueueBuffers(src, frames) == [src EXCEPT !.queue = Append(@, frames)]

\* alSourceUnqueueBuffers(source, n, out): fails as a whole (AL_INVALID_VALUE,
\* nothing removed) when fewer than n buffers are processed
alSourceUnqueueBuffers(src, n) ==
    IF n <= BuffersProcessed(src)
    THEN [src EXCEPT !.queue = SubSeq(@, n + 1, Len(@)),
                     !.played = IF src.played >= n THEN src.played - n ELSE 0,
                     !.stale = IF src.stale >= n THEN src.stale - n ELSE 0]
    ELSE src

\* the sink finishes the buffer it is playing; after the last one the source
\* is STOPPED
SinkPlaysOne(src) ==
    IF src.played + 1 = Len(src.queue)
    THEN [src EXCEPT !.state = "STOPPED", !.played = Len(src.queue)]
    ELSE [src EXCEPT !.played = @ + 1]

\* _discardQueuedBuffers: unqueue (and delete) AL_BUFFERS_QUEUED buffers
_discardQueuedBuffers(src) ==
    IF BuffersQueued(src) > 0
    THEN alSourceUnqueueBuffers(src, BuffersQueued(src))
    ELSE src

\* _discardProcessedBuffers: unqueue (and delete) AL_BUFFERS_PROCESSED buffers
_discardProcessedBuffers(src) ==
    IF BuffersProcessed(src) > 0
    THEN alSourceUnqueueBuffers(src, BuffersProcessed(src))
    ELSE src

(***************************************************************************)
(* The stretch engine: its state is how much input it has consumed since   *)
(* its last reset (0: freshly reset), counted up to MaxWarm.               *)
(***************************************************************************)
presetDefault == 0
stretchReset == 0
stretchProcess(st) == IF st < MaxWarm THEN st + 1 ELSE MaxWarm

(***************************************************************************)
(* A session: the Media struct / the session object.                       *)
(***************************************************************************)
Media(sampleRate, channels, numBuffers) ==
    [sampleRate |-> sampleRate,
     channels |-> channels,
     numBuffers |-> numBuffers,
     playbackSpeedFactor |-> [n |-> 1, d |-> 1],
     stretch |-> presetDefault,
     source |-> alGenSources]

\* the Audio object has no numBuffers: its threshold is MIN_BUFFERS_NUM
Audio(sampleRate, channels) ==
    Media(sampleRate, channels, MIN_BUFFERS_NUM)

(***************************************************************************)
(* Single-precision arithmetic.  A float is the rational it stands for; a  *)
(* speed factor is [n, d], the float n / d.  Every operation rounds its    *)
(* exact result to 24 significant bits, to nearest, ties to even.          *)
(***************************************************************************)
\* (float) x for an integer 0 <= x < 2^30: exact below 2^24
FloatOfInt(x) ==
    IF x < 2^24 THEN x
    ELSE LET u == CHOOSE w \in {2, 4, 8, 16, 32, 64} : 2^23 * w <= x /\ x < 2^24 * w
             mant == x \div u
             rem == x % u
         IN  IF 2 * rem > u \/ (2 * rem = u /\ mant % 2 = 1)
             THEN (mant + 1) * u
             ELSE mant * u

\* the l with 2^(l-1) < k <= 2^l, for 1 <= k <= 2^23: the floats just below
\* k are 2^(l-24) apart
Binade(k) == CHOOSE l \in 0..23 : k <= 2^l /\ (l = 0 \/ 2^(l - 1) < k)

\* static_cast<int>(a / b) for floats a, b with a / b = num / den, num >= 0,
\* den > 0: the quotient is rounded to a float before it is truncated, so a
\* quotient within half a step below an integer k becomes k
TruncatedQuotient(num, den) ==
    LET floor == num \div den
        k == floor + 1
    IN  IF num % den = 0 THEN FloatOfInt(floor)
        ELSE IF floor < 2^23
        THEN IF k * den - num <= den \div 2^(25 - Binade(k)) THEN k ELSE floor
        ELSE LET u == CHOOSE w \in {1, 2, 4, 8, 16, 32, 64} :
                          2^23 * w <= floor /\ floor < 2^24 * w
                 mant == num \div (den * u)
                 rem == num - mant * den * u
             IN  IF 2 * rem > den * u \/ (2 * rem = den * u /\ mant % 2 = 1)
                 THEN (mant + 1) * u
                 ELSE mant * u

\* static_cast<int>((float) size / sizeof(float) / (float) channels)
inputSamples(m, size) == TruncatedQuotient(FloatOfInt(size), 4 * m.channels)

\* static_cast<int>((float) inputSamples / playbackSpeedFactor), for a factor
\* other than 0
outputSamples(m, size) ==
    LET num == FloatOfInt(inputSamples(m, size)) * m.playbackSpeedFactor.d
    IN  IF m.playbackSpeedFactor.n > 0
        THEN TruncatedQuotient(num, m.playbackSpeedFactor.n)
        ELSE 0 - TruncatedQuotient(num, 0 - m.playbackSpeedFactor.n)

\* alBufferData(buffer, format, data, size, sampleRate): the frames the
\* buffer holds afterwards.  A format of AL_NONE (channels other than 1 and
\* 2) is AL_INVALID_ENUM and a frequency of 0 is AL_INVALID_VALUE: the buffer
\* stays empty.
alBufferData(m, frames) ==
    IF m.channels \in {1, 2} /\ m.sampleRate > 0 THEN frames ELSE 0

\* what the computation of the output length does to the call: a factor of
\* 0 makes inputSamples / factor infinite or NaN, whose conversion to int is
\* undefined; a negative length makes the std::vector constructor throw
\* std::length_error, which nothing catches
LengthFault(m, size) ==
    IF m.playbackSpeedFactor.n = 0 THEN "undefined"
    ELSE IF outputSamples(m, size) < 0 THEN "crash"
    ELSE "none"

\* a push that resets the stretch engine before it processes its chunk
Stretched_Fresh(m, size) ==
    IF inputSamples(m, size) > 0 THEN stretchProcess(stretchReset) ELSE m.stretch

\* stretch->process(inputBuffers, inputSamples, outputBuffers, outputSamples):
\* a call without input samples leaves the engine as it was
Stretched(m, size) ==
    IF inputSamples(m, size) > 0 THEN stretchProcess(m.stretch) ELSE m.stretch

\* stretch->process, alGenBuffers/alBufferData, alSourceQueueBuffers, and
\* alSourcePlay unless the source is PLAYING (the tail of both play()s)
StretchAndQueue(m, src, size) ==
    LET queued == alSourceQueueBuffers(src, alBufferData(m, outputSamples(m, size)))
    IN  IF LengthFault(m, size) # "none"
        THEN [m |-> m, res |-> LengthFault(m, size), val |-> 0]
        ELSE [m |-> [m EXCEPT !.stretch = Stretched(m, size),
                              !.source = IF SourceState(queued) # "PLAYING"
                                         THEN alSourcePlay(queued)
                                         ELSE queued],
              res |-> "true",
              val |-> outputSamples(m, size)]

\* the buffer name that alSourceUnqueueBuffers stored in a local variable
\* goes out of scope: the buffer is neither queued nor deleted
OutOfScope(src) == [src EXCEPT !.lost = TRUE]

\* Sampler::play admitting one buffer more than numBuffers
SamplerPlay_OffByOne(m, size) ==
    IF BuffersProcessed(m.source) > 0
    THEN [m |-> [m EXCEPT !.source = OutOfScope(alSourceUnqueueBuffers(@, 1))],
          res |-> "false", val |-> 0]
    ELSE IF BuffersQueued(m.source) > m.numBuffers
    THEN [m |-> m, res |-> "false", val |-> 0]
    ELSE StretchAndQueue(m, m.source, size)

\* Sampler::play running the stretch engine before its admission test
SamplerPlay_StretchesFirst(m, size) ==
    IF BuffersProcessed(m.source) > 0
    THEN [m |-> [m EXCEPT !.source = OutOfScope(alSourceUnqueueBuffers(@, 1)),
                          !.stretch = stretchProcess(@)],
          res |-> "false", val |-> 0]
    ELSE IF BuffersQueued(m.source) >= m.numBuffers
    THEN [m |-> [m EXCEPT !.stretch = stretchProcess(@)],
          res |-> "false", val |-> 0]
    ELSE StretchAndQueue(m, m.source, size)

\* a push that refuses while a processed buffer is queued and leaves it queued
SamplerPlay_KeepsProcessed(m, size) ==
    IF BuffersProcessed(m.source) > 0 \/ BuffersQueued(m.source) >= m.numBuffers
    THEN [m |-> m, res |-> "false", val |-> 0]
    ELSE StretchAndQueue(m, m.source, size)

\* Sampler::play of sampler.cpp, after _acquireMedia
SamplerPlay(m, size) ==
    IF BuffersProcessed(m.source) > 0
    THEN [m |-> [m EXCEPT !.source = OutOfScope(alSourceUnqueueBuffers(@, 1))],
          res |-> "false", val |-> 0]
    ELSE IF BuffersQueued(m.source) >= m.numBuffers
    THEN [m |-> m, res |-> "false", val |-> 0]
    ELSE StretchAndQueue(m, m.source, size)

\* Sampler::play of the session object (part_003): a processed buffer is
\* unqueued and refilled, else a new one is generated below numBuffers
SessionPlay(m, size) ==
    IF BuffersProcessed(m.source) > 0
    THEN StretchAndQueue(m, alSourceUnqueueBuffers(m.source, 1), size)
    ELSE IF BuffersQueued(m.source) < m.numBuffers
    THEN StretchAndQueue(m, m.source, size)
    ELSE [m |-> m, res |-> "false", val |-> 0]

\* length of Stretch::process(samples, n, factor): n / factor samples
StretchedLength(m, size) ==
    ((size \div 4) * m.playbackSpeedFactor.d) \div m.playbackSpeedFactor.n

\* _convertSamples: one 4-byte stereo s16 frame per pair of floats
ConvertedFrames(floats) == floats \div 2

\* Audio::play
AudioPlay(m, size) ==
    LET src1 == _discardProcessedBuffers(m.source)
        direct == m.playbackSpeedFactor = [n |-> 1, d |-> 1]
        frames == IF direct THEN ConvertedFrames(size \div 4)
                  ELSE ConvertedFrames(StretchedLength(m, size))
        src2 == IF frames > 0 THEN alSourceQueueBuffers(src1, frames) ELSE src1
        src3 == IF SourceState(src2) # "PLAYING" THEN alSourcePlay(src2) ELSE src2
    IN  IF BuffersQueued(src1) < MIN_BUFFERS_NUM
        THEN [m |-> [m EXCEPT !.stretch = IF direct THEN @ ELSE stretchProcess(@),
                              !.source = src3],
              res |-> "true", val |-> frames]
        ELSE [m |-> [m EXCEPT !.source = src1], res |-> "false", val |-> 0]

\* pause that pauses the source whatever its state
SamplerPause_AnyState(m) == [m EXCEPT !.source.state = "PAUSED"]

\* Sampler::pause (sampler.cpp, part_003): only a PLAYING source is paused
SamplerPause(m) ==
    IF SourceState(m.source) = "PLAYING"
    THEN [m EXCEPT !.source = alSourcePause(@)]
    ELSE m

\* Audio::pause: alSourcePause without a test of the state
AudioPause(m) == [m EXCEPT !.source = alSourcePause(@)]

\* resume playing every source that is not PLAYING
SamplerResume_UnlessPlaying(m) ==
    IF SourceState(m.source) # "PLAYING"
    THEN [m EXCEPT !.source = alSourcePlay(@)]
    ELSE m

\* resume of every revision: only a PAUSED source is played
SamplerResume(m) ==
    IF SourceState(m.source) = "PAUSED"
    THEN [m EXCEPT !.source = alSourcePlay(@)]
    ELSE m

\* Sampler::stop of sampler.cpp: discard, then alSourceStop
SamplerStop(m) ==
    [m EXCEPT !.source =
        alSourceStop(_discardProcessedBuffers(_discardQueuedBuffers(@)))]

\* Sampler::stop of the session object (part_003): alSourceStop, discard,
\* stretch->reset()
SessionStop(m) ==
    [m EXCEPT !.source =
                 _discardProcessedBuffers(_discardQueuedBuffers(alSourceStop(@))),
              !.stretch = stretchReset]

\* Audio::stop: alSourceStop, discard
AudioStop(m) ==
    [m EXCEPT !.source =
        _discardProcessedBuffers(_discardQueuedBuffers(alSourceStop(@)))]

\* Media::changePlaybackSpeed / Sampler::setPlaybackSpeed of the session object
changePlaybackSpeed(m, factor) == [m EXCEPT !.playbackSpeedFactor = factor]

\* Audio::setPlaybackSpeed: stores the factor and resets the stretch engine
AudioSetPlaybackSpeed(m, factor) ==
    [m EXCEPT !.playbackSpeedFactor = factor, !.stretch = stretchReset]

\* setVolume of every revision: a value in [0.0, 1.0] becomes the source's
\* AL_GAIN and is read back; any other value is refused
SetVolumeResult(m, value) ==
    IF 0 <= value /\ value <= 10
    THEN [m |-> [m EXCEPT !.source.gain = value], res |-> "true", val |-> value]
    ELSE [m |-> m, res |-> "false", val |-> 0]

\* alGetSourcef(source, AL_SEC_OFFSET): the position in the queue of a
\* PLAYING or PAUSED source, in played buffers; 0 otherwise
SecOffset(src) ==
    IF src.state \in {"PLAYING", "PAUSED"} THEN src.played ELSE 0

\* Media::getCurrentTime of the session object behind the pooled registry
MediaGetCurrentTime(m) == SecOffset(m.source)

(***************************************************************************)
(* The Media object over a PortAudio stream (media.cpp:132-383).  It is    *)
(* [sampleRate, channels, playbackSpeedFactor, volume, stretch, stream];   *)
(* stream is [state, pending]: state is "nullptr" while no stream is open, *)
(* else "stopped" or "active" (Pa_IsStreamStopped, Pa_IsStreamActive);     *)
(* pending holds the frame count of every chunk written and not yet        *)
(* played; started (history) tells whether the stream has ever been        *)
(* active.                                                                 *)
(***************************************************************************)
nullptr == [state |-> "nullptr", pending |-> <<>>, started |-> FALSE]

\* Pa_OpenStream: an open stream is stopped
Pa_OpenStream == [state |-> "stopped", pending |-> <<>>, started |-> FALSE]

Pa_StartStream(stream) == [stream EXCEPT !.state = "active", !.started = TRUE]

\* Pa_StopStream returns once the pending chunks have been played
Pa_StopStream(stream) == [stream EXCEPT !.state = "stopped", !.pending = <<>>]

\* Pa_AbortStream drops the pending chunks
Pa_AbortStream(stream) == [stream EXCEPT !.state = "stopped", !.pending = <<>>]

\* Pa_WriteStream(stream, data, frames)
Pa_WriteStream(stream, frames) ==
    IF frames > 0 THEN [stream EXCEPT !.pending = Append(@, frames)] ELSE stream

\* what Pa_GetDefaultOutputDevice, Pa_OpenStream and Pa_StartStream can
\* answer to start()
StartOutcomes == {"paNoError", "paNoDevice", "openError", "startError"}

\* Media::Media of media.cpp:134-154.  Whether Pa_Initialize returned an
\* error shows in nothing but a line on std::cerr.
MediaStream(sampleRate, channels, err) ==
    [sampleRate |-> sampleRate,
     channels |-> channels,
     playbackSpeedFactor |-> [n |-> 1, d |-> 1],
     volume |-> 10,
     stretch |-> presetDefault,
     stream |-> nullptr]

\* Media::setPlaybackSpeed
MediaSetPlaybackSpeed(m, factor) ==
    IF m.stream.state = "nullptr" THEN m
    ELSE [m EXCEPT !.playbackSpeedFactor = factor]

\* Media::setVolume
MediaSetVolume(m, value) ==
    IF m.stream.state = "nullptr" THEN m
    ELSE [m EXCEPT !.volume = value]

\* a start that starts again the stream that is already open
MediaStart_Restarts(m, outcome) ==
    IF outcome # "paNoError" THEN [m |-> m, res |-> "false", val |-> 0]
    ELSE IF m.stream.state # "nullptr"
    THEN [m |-> [m EXCEPT !.stream = Pa_StartStream(@)], res |-> "true", val |-> 0]
    ELSE [m |-> [m EXCEPT !.stream = Pa_StartStream(Pa_OpenStream)],
          res |-> "true", val |-> 0]

\* Media::start
MediaStart(m, outcome) ==
    IF m.stream.state # "nullptr" THEN [m |-> m, res |-> "false", val |-> 0]
    ELSE CASE outcome = "paNoError" ->
                [m |-> [m EXCEPT !.stream = Pa_StartStream(Pa_OpenStream)],
                 res |-> "true", val |-> 0]
           [] outcome = "startError" ->
                [m |-> [m EXCEPT !.stream = Pa_OpenStream],
                 res |-> "false", val |-> 0]
           [] OTHER -> [m |-> m, res |-> "false", val |-> 0]

\* a push that starts a stream that is open and not active, and writes to it
MediaPlay_StartsStream(m, size) ==
    IF m.stream.state = "nullptr" \/ size <= 0 \/ LengthFault(m, size) # "none"
    THEN [m |-> m, res |-> "false", val |-> 0]
    ELSE [m |-> [m EXCEPT !.stretch = Stretched(m, size),
                          !.stream = Pa_WriteStream(Pa_StartStream(@),
                                                    outputSamples(m, size))],
          res |-> "true",
          val |-> outputSamples(m, size)]

\* Media::play
MediaPlay(m, size) ==
    IF m.stream.state # "active" THEN [m |-> m, res |-> "false", val |-> 0]
    ELSE IF size <= 0 THEN [m |-> m, res |-> "false", val |-> 0]
    ELSE IF LengthFault(m, size) # "none"
    THEN [m |-> m, res |-> LengthFault(m, size), val |-> 0]
    ELSE [m |-> [m EXCEPT !.stretch = Stretched(m, size),
                          !.stream = Pa_WriteStream(@, outputSamples(m, size))],
          res |-> "true",
          val |-> outputSamples(m, size)]

\* Media::pause
MediaPause(m) ==
    IF m.stream.state = "active"
    THEN [m |-> [m EXCEPT !.stream = Pa_StopStream(@)], res |-> "true", val |-> 0]
    ELSE [m |-> m, res |-> "false", val |-> 0]

\* Media::resume
MediaResume(m) ==
    IF m.stream.state = "stopped"
    THEN [m |-> [m EXCEPT !.stream = Pa_StartStream(@)], res |-> "true", val |-> 0]
    ELSE [m |-> m, res |-> "false", val |-> 0]

\* Media::stop: Pa_AbortStream, Pa_CloseStream, stream = nullptr
MediaStop(m) ==
    IF m.stream.state = "active"
    THEN [m |-> [m EXCEPT !.stream = nullptr], res |-> "true", val |-> 0]
    ELSE [m |-> m, res |-> "false", val |-> 0]

\* Media::getCurrentTimeMicros with Pa_GetStreamTime = streamTime seconds
\* and no frames to read: streamTime - 0 / sampleRate, which is NaN for a
\* sample rate of 0
getCurrentTimeMicros(m, streamTime) ==
    IF m.stream.state = "nullptr" THEN [m |-> m, res |-> "time", val |-> 0 - 1]
    ELSE IF m.sampleRate = 0 THEN [m |-> m, res |-> "undefined", val |-> 0]
    ELSE [m |-> m, res |-> "time", val |-> streamTime]

(***************************************************************************)
(* One operation on the session an id was resolved to.                     *)
(* The result is [m, res, val]: the session afterwards, what the call      *)
(* returned ("true", "false", "void", "time") and a number (the frames     *)
(* submitted by play, the offset read by getCurrentTime).                  *)
(***************************************************************************)
Void(m) == [m |-> m, res |-> "void", val |-> 0]

play(v, m, size) ==
    CASE v = "sampler" -> SamplerPlay(m, size)
      [] v = "pooled" -> SessionPlay(m, size)
      [] v = "audio" -> AudioPlay(m, size)
      [] v = "stream" -> MediaPlay(m, size)

pause(v, m) ==
    CASE v = "audio" -> Void(AudioPause(m))
      [] v = "stream" -> MediaPause(m)
      [] OTHER -> Void(SamplerPause(m))

resume(v, m) ==
    IF v = "stream" THEN MediaResume(m) ELSE Void(SamplerResume(m))

\* history kept with stop(): what is still queued was submitted before it
Cancelled(after) == [after EXCEPT !.source.stale = Len(after.source.queue)]

stop(v, m) ==
    CASE v = "sampler" -> Void(Cancelled(SamplerStop(m)))
      [] v = "pooled" -> Void(Cancelled(SessionStop(m)))
      [] v = "audio" -> Void(Cancelled(AudioStop(m)))
      [] v = "stream" -> MediaStop(m)

setPlaybackSpeed(v, m, factor) ==
    CASE v = "audio" -> Void(AudioSetPlaybackSpeed(m, factor))
      [] v = "stream" -> Void(MediaSetPlaybackSpeed(m, factor))
      [] OTHER -> Void(changePlaybackSpeed(m, factor))

setVolume(v, m, value) ==
    IF v = "stream" THEN Void(MediaSetVolume(m, value))
    ELSE SetVolumeResult(m, value)

getCurrentTime(v, m, streamTime) ==
    CASE v = "stream" -> getCurrentTimeMicros(m, streamTime)
      [] v = "pooled" -> [m |-> m, res |-> "time", val |-> MediaGetCurrentTime(m)]
      [] OTHER -> [m |-> m, res |-> "time", val |-> SecOffset(m.source)]

SessionOp(v, op, m, arg) ==
    CASE op = "play" -> play(v, m, arg)
      [] op = "pause" -> pause(v, m)
      [] op = "resume" -> resume(v, m)
      [] op = "stop" -> stop(v, m)
      [] op = "setPlaybackSpeed" -> setPlaybackSpeed(v, m, arg)
      [] op = "setVolume" -> setVolume(v, m, arg)
      [] op = "getCurrentTime" -> getCurrentTime(v, m, arg)
      [] op = "start" -> MediaStart(m, arg)

(***************************************************************************)
(* The registry.                                                           *)
(***************************************************************************)
EmptyPool == [i \in {} |-> Media(0, 0, 0)]

emplace(p, id, m) == [i \in DOMAIN p \cup {id} |-> IF i = id THEN m ELSE p[i]]

erase(p, id) == [i \in DOMAIN p \ {id} |-> p[i]]

\* Sampler::_acquireMedia: what the lookup of id hands to the caller.
\* sampler.cpp returns it->second also when find() gave end(): undefined
\* behaviour, which ends the process ("crash") or yields a wild pointer, to
\* memory that is no session's ("wild") or to a live Media ("media").
\* audio.cpp returns nullptr for an absent id.  An Audio object and a Media
\* object over a stream are only called while they exist.
\* a lookup that ignores the key and returns the first session of the pool
_acquireMedia_First(p, v, id) ==
    IF p = EmptyPool THEN {[kind |-> "null", id |-> 0]}
    ELSE {[kind |-> "media", id |-> CHOOSE j \in DOMAIN p : \A k \in DOMAIN p : j <= k]}

_acquireMedia(p, v, id) ==
    IF id \in DOMAIN p THEN {[kind |-> "media", id |-> id]}
    ELSE CASE v = "sampler" ->
                {[kind |-> "crash", id |-> 0], [kind |-> "wild", id |-> 0]}
                \cup {[kind |-> "media", id |-> j] : j \in DOMAIN p}
           [] v = "pooled" -> {[kind |-> "null", id |-> 0]}
           [] v \in {"audio", "stream"} -> {}

\* what the callers of the pooled registry return on nullptr, and what a call
\* through a wild pointer without effect returns
ResultWithout(kind, op) ==
    CASE kind = "crash" -> [res |-> "crash", val |-> 0]
      [] kind = "wild" -> [res |-> "garbage", val |-> 0]
      [] op \in {"play", "setVolume"} -> [res |-> "false", val |-> 0]
      [] op = "getCurrentTime" -> [res |-> "time", val |-> 0]
      [] OTHER -> [res |-> "void", val |-> 0]

\* _releaseMedia that leaves the entry in the pool
_releaseMedia_KeepsEntry(p, id) == p

\* Sampler::_releaseMedia: sampler.cpp stops the source, discards its buffers
\* and resets the stretch engine before delete; audio.cpp deletes the session
\* (its destructor discards and cleans up).  Either way the entry is erased.
_releaseMedia(p, id) ==
    IF id \in DOMAIN p THEN erase(p, id) ELSE p

\* initialize replacing the session of an id that is present
initialize_Overwrites(p, id, sampleRate, channels, numBuffers) ==
    [pool |-> emplace(p, id, Media(sampleRate, channels, numBuffers)),
     res |-> IF id \notin DOMAIN p THEN "true" ELSE "false"]

\* Sampler::initialize
initialize(p, id, sampleRate, channels, numBuffers) ==
    IF id \notin DOMAIN p
    THEN [pool |-> emplace(p, id, Media(sampleRate, channels, numBuffers)),
          res |-> "true"]
    ELSE [pool |-> p, res |-> "false"]

(***************************************************************************)
(* Actions.                                                                *)
(***************************************************************************)
Called(op, id, res, val) == [op |-> op, id |-> id, res |-> res, val |-> val]

\* the threads of the caller, and a thread that is in no call
Threads == {1, 2}
Idle == [pc |-> "idle", op |-> "none", id |-> 0, arg |-> 0, locked |-> FALSE]

Init ==
    /\ variant \in Variants
    /\ mediaPool = EmptyPool
    /\ undefined = FALSE
    /\ last = Called("none", 0, "void", 0)
    /\ staleHeard = FALSE
    /\ threads = [t \in Threads |-> Idle]

\* the session as an operation finds it: what it loses is counted anew
Entered(v, m) ==
    IF v = "stream" THEN m ELSE [m EXCEPT !.source.lost = FALSE]

\* the outcomes of an operation on a session: an operation that runs into
\* undefined behaviour ends the process or goes on with a value of no meaning
Outcomes(r) ==
    IF r.res = "undefined"
    THEN {[r EXCEPT !.res = "crash"], [r EXCEPT !.res = "garbage"]}
    ELSE {r}

\* a call op(id, arg) that resolves id with _acquireMedia.  A call that ends
\* the process, or runs into undefined behaviour and has one of its
\* outcomes, is the last one: the execution is not followed beyond it.
Invoked(op, id, arg) ==
    /\ ~undefined
    /\ \E t \in _acquireMedia(mediaPool, variant, id) :
          IF t.kind = "media"
          THEN \E r \in Outcomes(SessionOp(variant, op,
                                           Entered(variant, mediaPool[t.id]), arg)) :
                  /\ undefined' = (id \notin DOMAIN mediaPool
                                    \/ r.res \in {"crash", "garbage"})
                  /\ mediaPool' = IF r.res = "crash" THEN EmptyPool
                                  ELSE [mediaPool EXCEPT ![t.id] = r.m]
                  /\ last' = Called(op, id, r.res, r.val)
          ELSE /\ undefined' = (t.kind # "null")
               /\ mediaPool' = IF t.kind = "crash" THEN EmptyPool ELSE mediaPool
               /\ last' = Called(op, id, ResultWithout(t.kind, op).res,
                                 ResultWithout(t.kind, op).val)
    /\ UNCHANGED <<variant, staleHeard>>

\* the call made by a caller that makes one call at a time
Invoke(op, id, arg) == Invoked(op, id, arg) /\ UNCHANGED threads

\* history kept with initialize(): 1 when the call before it closed the
\* session of the same id
Reuse(id) ==
    IF last.op = "close" /\ last.id = id /\ last.val = 1 THEN 1 ELSE 0

Initialized(id, sampleRate, channels, numBuffers) ==
    /\ ~undefined
    /\ IF variant = "audio"
       THEN /\ id \notin DOMAIN mediaPool
            /\ mediaPool' = emplace(mediaPool, id, Audio(sampleRate, channels))
            /\ last' = Called("initialize", id, "void", Reuse(id))
       ELSE LET r == initialize(mediaPool, id, sampleRate, channels, numBuffers)
            IN  /\ mediaPool' = r.pool
                /\ last' = Called("initialize", id, r.res, Reuse(id))
    /\ UNCHANGED <<variant, undefined, staleHeard>>

Initialize(id, sampleRate, channels, numBuffers) ==
    Initialized(id, sampleRate, channels, numBuffers) /\ UNCHANGED threads

\* the pooled registry refuses an empty chunk before it looks the id up
Played(id, size) ==
    IF variant = "pooled" /\ size <= 0
    THEN /\ ~undefined
         /\ last' = Called("play", id, "false", 0)
         /\ UNCHANGED <<variant, mediaPool, undefined, staleHeard>>
    ELSE Invoked("play", id, size)

Play(id, size) == Played(id, size) /\ UNCHANGED threads

Pause(id) == id \in Ids /\ Invoke("pause", id, 0)

Resume(id) == id \in Ids /\ Invoke("resume", id, 0)

Stop(id) == id \in Ids /\ Invoke("stop", id, 0)

SetPlaybackSpeed(id, factor) == id \in Ids /\ Invoke("setPlaybackSpeed", id, factor)

SetVolume(id, value) == id \in Ids /\ Invoke("setVolume", id, value)

\* the Audio object has no getCurrentTime
GetCurrentTime(id) == variant # "audio" /\ Invoke("getCurrentTime", id, 0)

Closed(id) ==
    /\ ~undefined
    /\ variant \in {"audio", "stream"} => id \in DOMAIN mediaPool
    /\ mediaPool' = _releaseMedia(mediaPool, id)
    /\ last' = Called("close", id, "void", IF id \in DOMAIN mediaPool THEN 1 ELSE 0)
    /\ UNCHANGED <<variant, undefined, staleHeard>>

Close(id) == Closed(id) /\ UNCHANGED threads

\* the sink finishes one buffer of a PLAYING source
Drain(id) ==
    /\ ~undefined
    /\ id \in DOMAIN mediaPool
    /\ SourceState(mediaPool[id].source) = "PLAYING"
    /\ mediaPool' = [mediaPool EXCEPT ![id].source = SinkPlaysOne(@)]
    /\ staleHeard' = (staleHeard
                      \/ mediaPool[id].source.played < mediaPool[id].source.stale)
    /\ last' = Called("drain", id, "void", 0)
    /\ UNCHANGED <<variant, undefined, threads>>

Next ==
    \/ \E id \in Ids, sr \in SampleRates, ch \in ChannelCounts :
          \E nb \in BufferCounts(id) : Initialize(id, sr, ch, nb)
    \/ \E id \in Ids : \E size \in Sizes(id) : Play(id, size)
    \/ \E id \in Ids : Pause(id)
    \/ \E id \in Ids : Resume(id)
    \/ \E id \in Ids : Stop(id)
    \/ \E id \in Ids : \E factor \in Speeds(id) : SetPlaybackSpeed(id, factor)
    \/ \E id \in Ids : \E value \in Volumes(id) : SetVolume(id, value)
    \/ \E id \in Ids : GetCurrentTime(id)
    \/ \E id \in Ids : Close(id)
    \/ \E id \in Ids : Drain(id)

Spec == Init /\ [][Next]_vars

\* the build of sampler.cpp alone
InitSampler == Init /\ variant = "sampler"

SpecSampler == InitSampler /\ [][Next]_vars

\* the calls with every argument, the ones no operation should accept included
NextAnyArgument ==
    \/ \E id \in Ids : \E f \in AnyFormats(id), nb \in BufferCounts(id) :
          Initialize(id, f[1], f[2], nb)
    \/ \E id \in Ids : \E size \in Sizes(id) : Play(id, size)
    \/ \E id \in Ids : Pause(id)
    \/ \E id \in Ids : Resume(id)
    \/ \E id \in Ids : Stop(id)
    \/ \E id \in Ids : \E factor \in AnySpeeds(id) : SetPlaybackSpeed(id, factor)
    \/ \E id \in Ids : \E value \in Volumes(id) : SetVolume(id, value)
    \/ \E id \in Ids : GetCurrentTime(id)
    \/ \E id \in Ids : Close(id)
    \/ \E id \in Ids : Drain(id)

SpecSamplerAnyArgument == InitSampler /\ [][NextAnyArgument]_vars

\* The calls with chunks of up to 128 MiB and the factor 0.75: a chunk of 3
\* frames, one of 16777213 frames, and one of 2^27 + 24 bytes, which is no
\* float.
FrameSizes(id) == IF id = 1 THEN {24, 134217704, 134217752} ELSE {8}
FrameSpeeds(id) ==
    IF id = 1 THEN {[n |-> 1, d |-> 1], [n |-> 3, d |-> 4]} ELSE {[n |-> 1, d |-> 1]}

NextFrames ==
    \/ \E id \in Ids, sr \in SampleRates, ch \in ChannelCounts :
          \E nb \in BufferCounts(id) : Initialize(id, sr, ch, nb)
    \/ \E id \in Ids : \E size \in FrameSizes(id) : Play(id, size)
    \/ \E id \in Ids : Pause(id)
    \/ \E id \in Ids : Resume(id)
    \/ \E id \in Ids : Stop(id)
    \/ \E id \in Ids : \E factor \in FrameSpeeds(id) : SetPlaybackSpeed(id, factor)
    \/ \E id \in Ids : \E value \in Volumes(id) : SetVolume(id, value)
    \/ \E id \in Ids : GetCurrentTime(id)
    \/ \E id \in Ids : Close(id)
    \/ \E id \in Ids : Drain(id)

SpecSamplerFrames == InitSampler /\ [][NextFrames]_vars

(***************************************************************************)
(* The Media objects over PortAudio streams.                               *)
(***************************************************************************)
\* Pa_Initialize in the constructor: paNoError or an error
InitializeOutcomes == {"paNoError", "paNotInitialized"}

\* Pa_GetStreamTime, in seconds
StreamTimes == {0, MaxWarm}

\* new Media(sampleRate, channels)
Construct(id, sampleRate, channels, err) ==
    /\ ~undefined
    /\ variant = "stream"
    /\ id \notin DOMAIN mediaPool
    /\ mediaPool' = emplace(mediaPool, id, MediaStream(sampleRate, channels, err))
    /\ last' = Called("initialize", id, "void", Reuse(id))
    /\ UNCHANGED <<variant, undefined, staleHeard, threads>>

Start(id, outcome) == id \in Ids /\ Invoke("start", id, outcome)

\* Pa_WriteStream blocks while the stream has no room for the chunk
PlayStream(id, size) ==
    /\ id \in DOMAIN mediaPool => Len(mediaPool[id].stream.pending) < MaxBuffers
    /\ Invoke("play", id, size)

GetCurrentTimeMicros(id, streamTime) ==
    id \in Ids /\ Invoke("getCurrentTime", id, streamTime)

\* the stream plays the oldest pending chunk
DrainStream(id) ==
    /\ ~undefined
    /\ id \in DOMAIN mediaPool
    /\ mediaPool[id].stream.state = "active"
    /\ Len(mediaPool[id].stream.pending) > 0
    /\ mediaPool' = [mediaPool EXCEPT ![id].stream.pending = Tail(@)]
    /\ last' = Called("drain", id, "void", 0)
    /\ UNCHANGED <<variant, undefined, staleHeard, threads>>

InitStream ==
    /\ variant = "stream"
    /\ mediaPool = EmptyPool
    /\ undefined = FALSE
    /\ last = Called("none", 0, "void", 0)
    /\ staleHeard = FALSE
    /\ threads = [t \in Threads |-> Idle]

NextStream ==
    \/ \E id \in Ids, sr \in SampleRates, ch \in ChannelCounts :
          \E err \in InitializeOutcomes : Construct(id, sr, ch, err)
    \/ \E id \in Ids : \E outcome \in StartOutcomes : Start(id, outcome)
    \/ \E id \in Ids : \E size \in Sizes(id) : PlayStream(id, size)
    \/ \E id \in Ids : Pause(id)
    \/ \E id \in Ids : Resume(id)
    \/ \E id \in Ids : Stop(id)
    \/ \E id \in Ids : \E factor \in Speeds(id) : SetPlaybackSpeed(id, factor)
    \/ \E id \in Ids : \E value \in Volumes(id) : SetVolume(id, value)
    \/ \E id \in Ids : \E t \in StreamTimes : GetCurrentTimeMicros(id, t)
    \/ \E id \in Ids : Close(id)
    \/ \E id \in Ids : DrainStream(id)

SpecStream == InitStream /\ [][NextStream]_vars

\* Media::stop when a device call reports an error: each failure returns
\* false at once, before the statements that follow it (Pa_CloseStream,
\* stream = nullptr)
StopOutcomes == {"paNoError", "abortError", "closeError"}

MediaStopOutcome(m, outcome) ==
    IF m.stream.state # "active" \/ outcome = "paNoError" THEN MediaStop(m)
    ELSE IF outcome = "abortError" THEN [m |-> m, res |-> "false", val |-> 0]
    ELSE [m |-> [m EXCEPT !.stream = Pa_AbortStream(@)], res |-> "false", val |-> 0]

StopStream(id, outcome) ==
    /\ ~undefined
    /\ id \in DOMAIN mediaPool
    /\ LET r == MediaStopOutcome(mediaPool[id], outcome) IN
          /\ mediaPool' = [mediaPool EXCEPT ![id] = r.m]
          /\ last' = Called("stop", id, r.res, r.val)
    /\ UNCHANGED <<variant, undefined, staleHeard, threads>>

NextStreamFaults ==
    \/ NextStream
    \/ \E id \in Ids : \E outcome \in StopOutcomes : StopStream(id, outcome)

SpecStreamFaults == InitStream /\ [][NextStreamFaults]_vars

\* every revision
InitAll == Init \/ InitStream

NextAll ==
    \/ \E id \in Ids, sr \in SampleRates, ch \in ChannelCounts :
          \E nb \in BufferCounts(id) : variant # "stream" /\ Initialize(id, sr, ch, nb)
    \/ \E id \in Ids, sr \in SampleRates, ch \in ChannelCounts :
          \E err \in InitializeOutcomes : Construct(id, sr, ch, err)
    \/ \E id \in Ids : \E outcome \in StartOutcomes :
          variant = "stream" /\ Start(id, outcome)
    \/ \E id \in Ids : \E size \in Sizes(id) : variant # "stream" /\ Play(id, size)
    \/ \E id \in Ids : \E size \in Sizes(id) : variant = "stream" /\ PlayStream(id, size)
    \/ \E id \in Ids : Pause(id)
    \/ \E id \in Ids : Resume(id)
    \/ \E id \in Ids : Stop(id)
    \/ \E id \in Ids : \E factor \in Speeds(id) : SetPlaybackSpeed(id, factor)
    \/ \E id \in Ids : \E value \in Volumes(id) : SetVolume(id, value)
    \/ \E id \in Ids : variant # "stream" /\ GetCurrentTime(id)
    \/ \E id \in Ids : \E t \in StreamTimes :
          variant = "stream" /\ GetCurrentTimeMicros(id, t)
    \/ \E id \in Ids : Close(id)
    \/ \E id \in Ids : variant # "stream" /\ Drain(id)
    \/ \E id \in Ids : variant = "stream" /\ DrainStream(id)

SpecAll == InitAll /\ [][NextAll]_vars

(***************************************************************************)
(* Callers on several threads.  Every public operation of the registry     *)
(* begins with std::lock_guard (play: std::unique_lock) on Sampler::mutex  *)
(* and holds it until it returns: the lookup, the stretch call and the     *)
(* device calls all run between ThreadLock and ThreadReturn.               *)
(***************************************************************************)
ThreadOps == {"initialize", "play", "stop", "close"}
ThreadSizes == {8}

\* a thread calls an operation; the caller names a session that exists at the
\* time of the call (or initializes one)
ThreadCall(t, op, id, arg) ==
    /\ ~undefined
    /\ threads[t].pc = "idle"
    /\ op = "initialize" \/ id \in DOMAIN mediaPool
    /\ threads' = [threads EXCEPT ![t] = [pc |-> "lock", op |-> op, id |-> id,
                                          arg |-> arg, locked |-> FALSE]]
    /\ UNCHANGED <<variant, mediaPool, undefined, last, staleHeard>>

\* a lock that is taken without waiting for its holder
ThreadLock_NoWait(t) ==
    /\ threads[t].pc = "lock"
    /\ threads' = [threads EXCEPT ![t].pc = "session", ![t].locked = TRUE]
    /\ UNCHANGED <<variant, mediaPool, undefined, last, staleHeard>>

\* std::lock_guard<std::mutex> lock(mutex): blocks while another thread holds it
ThreadLock(t) ==
    /\ threads[t].pc = "lock"
    /\ \A u \in Threads : ~threads[u].locked
    /\ threads' = [threads EXCEPT ![t].pc = "session", ![t].locked = TRUE]
    /\ UNCHANGED <<variant, mediaPool, undefined, last, staleHeard>>

\* the body of the operation: _acquireMedia, then the stretch and device calls
\* of the session; the lock_guard is still in scope
SessionBody(c) ==
    CASE c.op = "initialize" ->
            \E sr \in SampleRates, ch \in ChannelCounts :
               \E nb \in BufferCounts(c.id) : Initialized(c.id, sr, ch, nb)
      [] c.op = "play"  -> Played(c.id, c.arg)
      [] c.op = "close" -> Closed(c.id)
      [] OTHER          -> Invoked(c.op, c.id, c.arg)

ThreadSession(t) ==
    /\ threads[t].pc = "session"
    /\ SessionBody(threads[t])
    /\ threads' = [threads EXCEPT ![t].pc = "return"]

\* a return that leaves the registry's mutex locked
ThreadReturn_KeepsLock(t) ==
    /\ threads[t].pc = "return"
    /\ threads' = [threads EXCEPT ![t] = [Idle EXCEPT !.locked = TRUE]]
    /\ UNCHANGED <<variant, mediaPool, undefined, last, staleHeard>>

\* the operation returns: the lock_guard goes out of scope
ThreadReturn(t) ==
    /\ threads[t].pc = "return"
    /\ threads' = [threads EXCEPT ![t] = Idle]
    /\ UNCHANGED <<variant, mediaPool, undefined, last, staleHeard>>

InitThreads == Init /\ variant \in {"sampler", "pooled"}

NextThreads ==
    \/ \E t \in Threads, id \in Ids : ThreadCall(t, "initialize", id, 0)
    \/ \E t \in Threads, id \in Ids : \E size \in ThreadSizes : ThreadCall(t, "play", id, size)
    \/ \E t \in Threads, id \in Ids : ThreadCall(t, "stop", id, 0)
    \/ \E t \in Threads, id \in Ids : ThreadCall(t, "close", id, 0)
    \/ \E t \in Threads : ThreadLock(t)
    \/ \E t \in Threads : ThreadSession(t)
    \/ \E t \in Threads : ThreadReturn(t)
    \/ \E id \in Ids : Drain(id)

SpecThreads == InitThreads /\ [][NextThreads]_vars

(***************************************************************************)
(* A producer and the sink.  The producer pushes chunks to the sessions it  *)
(* has initialized and pushes again after a rejection; the sink goes on     *)
(* playing what is queued.                                                  *)
(***************************************************************************)
RetrySizes == {8}

Retry(id, size) == id \in DOMAIN mediaPool /\ Play(id, size)

NextBackpressure ==
    \/ \E id \in Ids, sr \in SampleRates, ch \in ChannelCounts :
          \E nb \in BufferCounts(id) : Initialize(id, sr, ch, nb)
    \/ \E id \in Ids : \E size \in RetrySizes : Retry(id, size)
    \/ \E id \in Ids : Drain(id)

\* the sink keeps draining and the producer keeps pushing
FairBackpressure ==
    \A id \in Ids :
       /\ WF_vars(Drain(id))
       /\ \A size \in RetrySizes : WF_vars(Retry(id, size))

SpecBackpressure == Init /\ [][NextBackpressure]_vars /\ FairBackpressure

(***************************************************************************)
(* The two levels of locks of audio.cpp.  An operation of the registry      *)
(* holds Sampler::mutex and calls the operation of the Audio object, which  *)
(* begins with std::lock_guard on the object's own mutex: a thread at       *)
(* "media" holds the mutex of the session it names as well.  Both are       *)
(* released when the call returns.                                          *)
(***************************************************************************)
\* std::lock_guard<std::mutex> lock(mutex) of the Audio object
ThreadEnter(t) ==
    /\ threads[t].pc = "session"
    /\ \A u \in Threads : ~(threads[u].pc = "media" /\ threads[u].id = threads[t].id)
    /\ threads' = [threads EXCEPT ![t].pc = "media"]
    /\ UNCHANGED <<variant, mediaPool, undefined, last, staleHeard>>

\* the body of the operation under both locks
ThreadMedia(t) ==
    /\ threads[t].pc = "media"
    /\ SessionBody(threads[t])
    /\ threads' = [threads EXCEPT ![t].pc = "return"]

NextLocks ==
    \/ \E t \in Threads, id \in Ids : ThreadCall(t, "initialize", id, 0)
    \/ \E t \in Threads, id \in Ids : \E size \in ThreadSizes : ThreadCall(t, "play", id, size)
    \/ \E t \in Threads, id \in Ids : ThreadCall(t, "stop", id, 0)
    \/ \E t \in Threads, id \in Ids : ThreadCall(t, "close", id, 0)
    \/ \E t \in Threads : ThreadLock(t)
    \/ \E t \in Threads : ThreadEnter(t)
    \/ \E t \in Threads : ThreadMedia(t)
    \/ \E t \in Threads : ThreadReturn(t)

\* a thread that waits for a mutex gets it if it is free again and again; a
\* thread that can take its next step takes it (each device call returns)
FairLocks ==
    \A t \in Threads :
       /\ SF_vars(ThreadLock(t))
       /\ SF_vars(ThreadEnter(t))
       /\ WF_vars(ThreadMedia(t))
       /\ WF_vars(ThreadReturn(t))

InitLocks == InitThreads /\ variant = "pooled"

SpecLocks == InitLocks /\ [][NextLocks]_vars /\ FairLocks

(***************************************************************************)
(* Sampler::~Sampler.  The range-for over mediaPool calls _releaseMedia on  *)
(* the element it stands on; _releaseMedia erases that element, and the     *)
(* loop then increments the iterator of the erased element.  With a pool   *)
(* that is not empty the behaviour is undefined: the loop may happen to     *)
(* visit every session, may crash, or may end with sessions it never        *)
(* visited (kept: the sessions left unreleased; sampler.cpp clears the      *)
(* mapping afterwards, audio.cpp does not).                                 *)
(* The result is [pool, res, released].                                     *)
(***************************************************************************)
DestroySampler(p, v) ==
    IF p = EmptyPool
    THEN {[pool |-> EmptyPool, res |-> "void", released |-> 0]}
    ELSE {[pool |-> EmptyPool, res |-> "void", released |-> Cardinality(DOMAIN p)],
          [pool |-> EmptyPool, res |-> "crash", released |-> 1]}
         \cup {[pool |-> IF v = "sampler" THEN EmptyPool
                         ELSE [i \in kept |-> p[i]],
                res |-> "garbage",
                released |-> Cardinality(DOMAIN p \ kept)] :
                  kept \in (SUBSET DOMAIN p) \ {{}, DOMAIN p}}

\* the registry object still exists
Alive == last.op # "destroy"

Destroy ==
    /\ ~undefined
    /\ Alive
    /\ \E r \in DestroySampler(mediaPool, variant) :
          /\ mediaPool' = r.pool
          /\ undefined' = (mediaPool # EmptyPool)
          /\ last' = Called("destroy", 0, r.res, r.released)
    /\ UNCHANGED <<variant, staleHeard, threads>>

NextTeardown ==
    \/ \E id \in Ids, sr \in SampleRates, ch \in ChannelCounts :
          \E nb \in BufferCounts(id) : Alive /\ Initialize(id, sr, ch, nb)
    \/ \E id \in Ids : \E size \in Sizes(id) : Alive /\ Play(id, size)
    \/ \E id \in Ids : Alive /\ Stop(id)
    \/ \E id \in Ids : Alive /\ Close(id)
    \/ \E id \in Ids : Alive /\ Drain(id)
    \/ Destroy

SpecTeardown == InitThreads /\ [][NextTeardown]_vars

(***************************************************************************)
(* Properties.                                                             *)
(***************************************************************************)
\* the session's bufferCapacity: numBuffers, MIN_BUFFERS_NUM for an Audio object
Capacity(m) == m.numBuffers

\* buffers at the sink that it has not finished playing
Unplayed(m) == BuffersQueued(m.source) - BuffersProcessed(m.source)

\* the queue is at capacity once the played buffers are reclaimed
AtCapacity(m) == Unplayed(m) >= Capacity(m)

\* the calls that resolve an id to an existing session
LookupOps ==
    {"setVolume", "setPlaybackSpeed", "play", "pause", "resume", "stop",
     "getCurrentTime", "close"}

\* C1: in every reachable state the number of buffers queued at a session's
\* sink, the played but not yet reclaimed ones included, is at most the
\* session's bufferCapacity.
C1_CapacityInvariant ==
    \A id \in DOMAIN mediaPool :
        BuffersQueued(mediaPool[id].source) <= Capacity(mediaPool[id])

\* a push has just been refused by a session whose queue is full
C1_Witness ==
    \E id \in DOMAIN mediaPool :
        /\ BuffersQueued(mediaPool[id].source) = Capacity(mediaPool[id])
        /\ last.op = "play" /\ last.id = id /\ last.res = "false"

\* C2: a push on a session whose queue is at capacity returns false, submits
\* no buffer and leaves the stretch engine's state as it was.
C2_RejectedPushKeepsStretch ==
    [][\A id \in DOMAIN mediaPool :
          (last'.op = "play" /\ last'.id = id /\ AtCapacity(mediaPool[id]))
          => /\ last'.res = "false"
             /\ id \in DOMAIN mediaPool'
             /\ mediaPool'[id].source.queue = mediaPool[id].source.queue
             /\ mediaPool'[id].stretch = mediaPool[id].stretch]_vars

\* a push was refused at capacity by a session whose stretch engine has
\* consumed input
C2_Witness ==
    \E id \in DOMAIN mediaPool :
        /\ AtCapacity(mediaPool[id])
        /\ mediaPool[id].stretch > 0
        /\ last.op = "play" /\ last.id = id /\ last.res = "false"

\* the queue after a push that reclaimed some played buffers and submitted one
EnqueuedOne(before, after) ==
    /\ Len(after) > 0
    /\ \E k \in 0..Len(before) :
          SubSeq(after, 1, Len(after) - 1) = SubSeq(before, k + 1, Len(before))

\* C3: a push of a non-empty chunk on an existing session with fewer unplayed
\* buffers at the sink than bufferCapacity is accepted and enqueues one buffer.
C3_PushAcceptedBelowCapacity ==
    [][\A id \in DOMAIN mediaPool : \A size \in Sizes(id) \ {0} :
          (Play(id, size) /\ Unplayed(mediaPool[id]) < Capacity(mediaPool[id]))
          => /\ last'.res = "true"
             /\ EnqueuedOne(mediaPool[id].source.queue,
                            mediaPool'[id].source.queue)]_vars

\* C4: right after stop() on a Playing or Paused session the sink's queued
\* count and processed count are both zero.
C4_StopDiscards ==
    [][\A id \in DOMAIN mediaPool :
          (Stop(id) /\ SourceState(mediaPool[id].source) \in {"PLAYING", "PAUSED"})
          => /\ BuffersQueued(mediaPool'[id].source) = 0
             /\ BuffersProcessed(mediaPool'[id].source) = 0]_vars

C6_StopResetsStretch ==
    [][\A id \in DOMAIN mediaPool :
          (Stop(id) /\ SourceState(mediaPool[id].source) \in {"PLAYING", "PAUSED"})
          => mediaPool'[id].stretch = stretchReset]_vars

\* C7: initialize on an id that is present returns false and leaves the
\* registry, and with it every session, as it was.
C7_InitializeExisting ==
    [][\A id \in DOMAIN mediaPool :
          (last'.op = "initialize" /\ last'.id = id)
          => /\ last'.res = "false"
             /\ mediaPool' = mediaPool]_vars

\* initialize was refused for an id whose session has buffers queued
C7_Witness ==
    /\ last.op = "initialize" /\ last.res = "false"
    /\ last.id \in DOMAIN mediaPool
    /\ BuffersQueued(mediaPool[last.id].source) > 0

\* C8: close(id) on an existing session removes id from the registry, and
\* initialize on an absent id, one just closed included, succeeds with a
\* fresh session: speed 1.0, nothing queued, whatever the closed one held.
C8_IdReuse ==
    [][\A id \in Ids :
          /\ (last'.op = "close" /\ last'.id = id /\ id \in DOMAIN mediaPool)
             => id \notin DOMAIN mediaPool'
          /\ (last'.op = "initialize" /\ last'.id = id /\ id \notin DOMAIN mediaPool)
             => /\ last'.res # "false"
                /\ id \in DOMAIN mediaPool'
                /\ mediaPool'[id].playbackSpeedFactor = [n |-> 1, d |-> 1]
                /\ mediaPool'[id].source = alGenSources
                /\ mediaPool'[id].stretch = presetDefault]_vars

\* initialize has succeeded on an id right after the close of its session
C8_Witness ==
    /\ last.op = "initialize" /\ last.res = "true" /\ last.val = 1
    /\ last.id \in DOMAIN mediaPool

\* C9: every call but initialize on an id that is absent fails with NotFound
\* and leaves the registry and every session as they were.
C9_AbsentIdNotFound ==
    [][\A id \in Ids \ DOMAIN mediaPool :
          (last'.op \in LookupOps /\ last'.id = id)
          => /\ last'.res = "NotFound"
             /\ mediaPool' = mediaPool
             /\ ~undefined']_vars

\* C10: close(id) removes the session from any state, and every call on the
\* id that follows the close, until an initialize, fails with NotFound or
\* InvalidState.
C10_CloseTerminal ==
    [][\A id \in Ids :
          /\ (last'.op = "close" /\ last'.id = id) => id \notin DOMAIN mediaPool'
          /\ (/\ last.op = "close" /\ last.id = id /\ last.val = 1
              /\ last'.op \in LookupOps /\ last'.id = id)
             => /\ last'.res \in {"NotFound", "InvalidState"}
                /\ mediaPool' = mediaPool
                /\ ~undefined']_vars

\* C11: initialize with a sample rate of 0 or a channel count other than 1
\* and 2 fails with InvalidArgument and inserts no entry into the registry.
C11_InitializeRejectsFormat ==
    [][\A id \in Ids : \A f \in AnyFormats(id), nb \in BufferCounts(id) :
          (Initialize(id, f[1], f[2], nb) /\ (f[1] = 0 \/ f[2] \notin {1, 2}))
          => /\ last'.res \notin {"true", "void"}
             /\ mediaPool' = mediaPool]_vars

\* C12: when the output resource cannot be acquired while a session is
\* constructed, initialize reports a failure and no entry for the id exists
\* afterwards.
C12_FailedAcquisitionNoEntry ==
    [][\A id \in Ids, sr \in SampleRates, ch \in ChannelCounts :
          Construct(id, sr, ch, "paNotInitialized")
          => /\ last'.res \notin {"true", "void"}
             /\ id \notin DOMAIN mediaPool']_vars

\* C13: setVolume with a value below 0 or above 1 leaves the session's
\* volume as it was, and the volume of every session lies in [0, 1] after
\* every step (volumes are in tenths).
C13_VolumeInRange ==
    [][/\ \A id \in DOMAIN mediaPool : \A value \in Volumes(id) :
             (SetVolume(id, value) /\ (value < 0 \/ value > 10))
             => mediaPool'[id].volume = mediaPool[id].volume
       /\ \A id \in DOMAIN mediaPool' :
             0 <= mediaPool'[id].volume /\ mediaPool'[id].volume <= 10]_vars

\* C14: setPlaybackSpeed with a factor of 0 or below leaves the stored factor
\* as it was; the factor of every session is above 0 after every step; and
\* no push on an existing session computes a negative or undefined output
\* length.
C14_SpeedFactorPositive ==
    [][/\ \A id \in DOMAIN mediaPool : \A factor \in AnySpeeds(id) :
             (SetPlaybackSpeed(id, factor) /\ factor.n <= 0)
             => mediaPool'[id].playbackSpeedFactor = mediaPool[id].playbackSpeedFactor
       /\ \A id \in DOMAIN mediaPool' : mediaPool'[id].playbackSpeedFactor.n > 0
       /\ (last'.op = "play" /\ last'.id \in DOMAIN mediaPool)
             => last'.res \notin {"crash", "garbage"}]_vars

\* C15: setPlaybackSpeed with a factor above 0 on an existing session, in
\* whatever state it is (constructed and not yet started included), makes
\* that factor the one the next push divides by, and changes neither the
\* number nor the lengths of the chunks already submitted.
C15_SpeedTakesEffect ==
    [][\A id \in DOMAIN mediaPool : \A factor \in Speeds(id) :
          SetPlaybackSpeed(id, factor)
          => /\ mediaPool'[id].playbackSpeedFactor = factor
             /\ mediaPool'[id].stream.pending = mediaPool[id].stream.pending]_vars

\* floor(floor(size / (4 * channels)) / factor), in exact arithmetic
FloorFrames(m, size) ==
    ((size \div (4 * m.channels)) * m.playbackSpeedFactor.d)
        \div m.playbackSpeedFactor.n

\* C16: the buffer an accepted push submits holds exactly
\* floor(inputFrames / factor) frames, where inputFrames is
\* floor(size / (4 * channels)); with the factor 1.0 that is inputFrames.
C16_SubmittedFrames ==
    [][\A id \in DOMAIN mediaPool : \A size \in FrameSizes(id) :
          (Play(id, size) /\ last'.res = "true")
          => /\ last'.val = FloorFrames(mediaPool[id], size)
             /\ mediaPool'[id].source.queue[Len(mediaPool'[id].source.queue)]
                    = FloorFrames(mediaPool[id], size)]_vars

\* C17: a push of an empty chunk (size 0) on an existing session fails in
\* every state: nothing is submitted, the stretch engine is left alone and
\* the sink's queued and processed counts stay as they were.
C17_EmptyPushFails ==
    [][\A id \in DOMAIN mediaPool :
          Play(id, 0)
          => /\ last'.res = "false"
             /\ mediaPool'[id].stretch = mediaPool[id].stretch
             /\ BuffersQueued(mediaPool'[id].source) = BuffersQueued(mediaPool[id].source)
             /\ BuffersProcessed(mediaPool'[id].source)
                    = BuffersProcessed(mediaPool[id].source)]_vars

\* C18: a push of a non-empty chunk whose output length is 0 frames, on a
\* session with room in its queue, returns true and submits no buffer: the
\* sink's queued count stays as it was.
C18_ZeroLengthPushIsNoOp ==
    [][\A id \in DOMAIN mediaPool : \A size \in Sizes(id) \ {0} :
          (/\ Play(id, size)
           /\ outputSamples(mediaPool[id], size) = 0
           /\ BuffersProcessed(mediaPool[id].source) = 0
           /\ BuffersQueued(mediaPool[id].source) < Capacity(mediaPool[id]))
          => /\ last'.res = "true"
             /\ BuffersQueued(mediaPool'[id].source)
                    = BuffersQueued(mediaPool[id].source)]_vars

\* the playback state of a session: of an OpenAL source by AL_SOURCE_STATE;
\* of a stream "Playing" while active, "Paused" while stopped after it has
\* been active, and "Ready" while it is not open or has never been active
PlaybackState(v, m) ==
    IF v = "stream"
    THEN CASE m.stream.state = "active" -> "Playing"
           [] m.stream.state = "stopped" /\ m.stream.started -> "Paused"
           [] OTHER -> "Ready"
    ELSE CASE SourceState(m.source) = "PLAYING" -> "Playing"
           [] SourceState(m.source) = "PAUSED" -> "Paused"
           [] SourceState(m.source) = "STOPPED" -> "Stopped"
           [] OTHER -> "Ready"

\* the session but for its playback state and, for a stream, for the chunks
\* that Pa_StopStream plays out
BesidesPlayback(v, m) ==
    IF v = "stream" THEN [m EXCEPT !.stream = nullptr]
    ELSE [m EXCEPT !.source.state = "INITIAL"]

\* C19: pause() moves a Playing session to Paused and leaves a session in
\* any other state exactly as it was; a second pause() right after the first
\* changes nothing (playback state, queue, speed, volume).
C19_PauseIdempotentGuarded ==
    [][\A id \in DOMAIN mediaPool :
          (last'.op = "pause" /\ last'.id = id)
          => /\ IF PlaybackState(variant, mediaPool[id]) = "Playing"
                THEN /\ PlaybackState(variant, mediaPool'[id]) = "Paused"
                     /\ BesidesPlayback(variant, mediaPool'[id])
                            = BesidesPlayback(variant, Entered(variant, mediaPool[id]))
                ELSE mediaPool'[id] = Entered(variant, mediaPool[id])
             /\ SessionOp(variant, "pause", mediaPool'[id], 0).m = mediaPool'[id]]_vars

\* pause() has been called on a session that is Paused with buffers queued
C19_Witness ==
    \E id \in DOMAIN mediaPool :
        /\ last.op = "pause" /\ last.id = id
        /\ variant # "stream"
        /\ PlaybackState(variant, mediaPool[id]) = "Paused"
        /\ BuffersQueued(mediaPool[id].source) > 0

\* C20: resume() moves a Paused session to Playing and leaves a session
\* that is Ready, Playing or Stopped exactly as it was; a second resume()
\* right after the first changes nothing.
C20_ResumeOnlyWhenPaused ==
    [][\A id \in DOMAIN mediaPool :
          (last'.op = "resume" /\ last'.id = id)
          => /\ IF PlaybackState(variant, mediaPool[id]) = "Paused"
                THEN PlaybackState(variant, mediaPool'[id]) = "Playing"
                ELSE mediaPool'[id] = mediaPool[id]
             /\ SessionOp(variant, "resume", mediaPool'[id], 0).m = mediaPool'[id]]_vars

\* the buffers at the sink that it has not played yet, oldest first
UnplayedBuffers(v, m) ==
    IF v = "stream" THEN m.stream.pending
    ELSE SubSeq(m.source.queue, BuffersProcessed(m.source) + 1, Len(m.source.queue))

\* C21: pause() and resume() leave the sequence of not yet played buffers at
\* the sink as it was, and the sink plays none of them while the session is
\* Paused; so the sequence after pause(); resume() is the one before it.
C21_PausePreservesBuffers ==
    [][\A id \in DOMAIN mediaPool :
          /\ (last'.op \in {"pause", "resume"} /\ last'.id = id)
             => UnplayedBuffers(variant, mediaPool'[id])
                   = UnplayedBuffers(variant, mediaPool[id])
          /\ (PlaybackState(variant, mediaPool[id]) = "Paused" /\ last'.op = "drain")
             => UnplayedBuffers(variant, mediaPool'[id])
                   = UnplayedBuffers(variant, mediaPool[id])]_vars

\* C22: a push changes the state of the source (commands it to play) only
\* with a buffer queued, and after a push that returned true and submitted
\* a buffer with frames the source is PLAYING.
C22_PlayAfterSubmission ==
    [][\A id \in DOMAIN mediaPool :
          (last'.op = "play" /\ last'.id = id)
          => /\ SourceState(mediaPool'[id].source) # SourceState(mediaPool[id].source)
                => BuffersQueued(mediaPool'[id].source) > 0
             /\ (last'.res = "true" /\ last'.val > 0)
                => SourceState(mediaPool'[id].source) = "PLAYING"]_vars

\* C23: after every operation no buffer of a session is allocated without
\* being queued at its sink: every buffer a push or a stop has removed from
\* the queue was deleted or submitted again.
C23_NoLeakedBuffers ==
    \A id \in DOMAIN mediaPool : ~mediaPool[id].source.lost

\* C24: operations of concurrent callers are atomic and totally ordered: at
\* most one thread is between taking the lock and returning; while a thread is
\* inside an operation no other thread's operation changes any session (only the
\* sink moves on); and an accepted push appends its buffer at the tail of the
\* sink's queue, whose other buffers keep their order, so the sink receives the
\* buffers in the order in which the accepted pushes completed.
C24_OperationsAtomicAndOrdered ==
    [][/\ Cardinality({t \in Threads : threads'[t].locked}) <= 1
       /\ \A t \in Threads :
             (threads[t].pc = "session" /\ threads'[t].pc = "session"
                /\ last'.op # "drain")
             => mediaPool' = mediaPool
       /\ \A t \in Threads :
             (/\ threads[t].pc = "session" /\ threads'[t].pc = "return"
              /\ threads[t].op = "play"
              /\ threads[t].id \in DOMAIN mediaPool
              /\ ~undefined'
              /\ last'.res = "true" /\ last'.val > 0)
             => LET q == mediaPool[threads[t].id].source.queue IN
                   \E k \in 0..Len(q) :
                      mediaPool'[threads[t].id].source.queue
                         = Append(SubSeq(q, k + 1, Len(q)), last'.val)]_vars

\* a push on a session has been accepted and has not returned yet, while
\* another thread waits with a push on the same session
C24_Witness ==
    \E t, u \in Threads :
       /\ threads[t].pc = "return" /\ threads[t].op = "play" /\ threads[t].locked
       /\ last.op = "play" /\ last.res = "true" /\ last.val > 0
       /\ threads[u].pc = "lock" /\ threads[u].op = "play"
       /\ threads[u].id = threads[t].id
       /\ ~undefined

\* C25: the registry lock protects only the mapping: no thread holds it while
\* the stretch call and the device calls of a push or a stop on an existing
\* session execute.
C25_LockNotHeldInSession ==
    [][\A t \in Threads :
          (/\ threads[t].pc = "session" /\ threads'[t].pc = "return"
           /\ threads[t].op \in {"play", "stop"}
           /\ threads[t].id \in DOMAIN mediaPool)
          => ~threads[t].locked]_vars

\* the pooled registry alone, with callers on several threads
SpecThreadsPooled == InitLocks /\ [][NextThreads]_vars

\* C26: close(id) interleaved with other operations on the same id: an
\* operation that was called while the session existed and runs after the
\* session was released touches no session and has defined behaviour, and a
\* second close releases nothing.
C26_NoUseAfterClose ==
    [][\A t \in Threads :
          (/\ threads[t].pc = "session" /\ threads'[t].pc = "return"
           /\ threads[t].op # "initialize"
           /\ threads[t].id \notin DOMAIN mediaPool)
          => (mediaPool' = mediaPool /\ ~undefined')]_vars

\* C27: sessions are independent: a push, pause, resume, stop, setVolume,
\* setPlaybackSpeed or close on a session A leaves every other session B in the
\* pool, with its playback state, queue, speed, volume and stretch state, as
\* it was.
C27_SessionsIndependent ==
    [][\A a \in DOMAIN mediaPool : \A b \in DOMAIN mediaPool \ {a} :
          (/\ last'.id = a
           /\ last'.op \in {"play", "pause", "resume", "stop", "setVolume",
                            "setPlaybackSpeed", "close"}
           /\ ~undefined')
          => (b \in DOMAIN mediaPool' /\ mediaPool'[b] = mediaPool[b])]_vars

\* session 1 has just been stopped or closed while session 2 is playing its
\* queue at a speed and volume of its own
C27_Witness ==
    /\ last.op \in {"stop", "close"} /\ last.id = 1
    /\ 2 \in DOMAIN mediaPool
    /\ SourceState(mediaPool[2].source) = "PLAYING"
    /\ BuffersQueued(mediaPool[2].source) > 0
    /\ mediaPool[2].stretch # stretchReset
    /\ ~undefined

\* C28: teardown is best effort: when stop() is called on a playing stream,
\* the stream is released when stop() returns, whether or not a device call
\* reported an error on the way.
C28_StopReleasesRegardless ==
    [][\A id \in DOMAIN mediaPool :
          (/\ last'.op = "stop" /\ last'.id = id
           /\ id \in DOMAIN mediaPool'
           /\ mediaPool[id].stream.state = "active")
          => mediaPool'[id].stream = nullptr]_vars

\* C29: a position query on an id without a session has defined behaviour,
\* touches no session and returns a failure value that no live session
\* reports: the positions of live sessions are never negative, so the value
\* returned is below zero.
C29_AbsentPositionSentinel ==
    [][\A id \in Ids :
          (last'.op = "getCurrentTime" /\ last'.id = id /\ id \notin DOMAIN mediaPool)
          => /\ ~undefined'
             /\ mediaPool' = mediaPool
             /\ last'.res = "time" /\ last'.val < 0]_vars

\* C30: destroying the registry with sessions open has defined behaviour,
\* releases every open session exactly once and leaves the mapping empty.
C30_TeardownReleasesAll ==
    [][(last'.op = "destroy" /\ mediaPool # EmptyPool)
       => /\ ~undefined'
          /\ mediaPool' = EmptyPool
          /\ last'.val = Cardinality(DOMAIN mediaPool)]_vars

\* what the claims about transport calls compare: playback state, the sink's
\* queue, speed factor and volume
Observed(v, m) ==
    IF v = "stream"
    THEN <<PlaybackState(v, m), m.stream.pending, m.playbackSpeedFactor, m.volume>>
    ELSE <<PlaybackState(v, m), m.source.queue, m.playbackSpeedFactor, m.source.gain>>

\* C31: stop() on a session that is Ready or Stopped is a no-op: playback
\* state, sink queue, speed factor and volume are as before, and a second
\* stop() right after any stop() changes none of them either.
C31_StopWhenNotPlayingIsNoOp ==
    [][\A id \in DOMAIN mediaPool :
          (last'.op = "stop" /\ last'.id = id /\ id \in DOMAIN mediaPool' /\ ~undefined')
          => /\ PlaybackState(variant, mediaPool[id]) \in {"Ready", "Stopped"}
                => Observed(variant, mediaPool'[id]) = Observed(variant, mediaPool[id])
             /\ Observed(variant, SessionOp(variant, "stop", mediaPool'[id], 0).m)
                  = Observed(variant, mediaPool'[id])]_vars

C34_RejectedPushEventuallyAccepted ==
    \A id \in Ids :
       (last.op = "play" /\ last.id = id /\ last.res = "false")
       ~> (last.op = "play" /\ last.id = id /\ last.res = "true")

\* a push has just been rejected on a session whose queue is full and whose
\* source is playing
C34_Witness ==
    \E id \in DOMAIN mediaPool :
       /\ last.op = "play" /\ last.id = id /\ last.res = "false"
       /\ SourceState(mediaPool[id].source) = "PLAYING"
       /\ BuffersQueued(mediaPool[id].source) >= Capacity(mediaPool[id])
       /\ BuffersProcessed(mediaPool[id].source) = 0

\* C35: push, pause, resume, setVolume and the position query never reset
\* the stretch engine: pause, resume, setVolume, the position query and a
\* rejected push leave its state as it is, and an accepted push leaves it as
\* it is or processes one more chunk on top of it; a push that submits a
\* buffer processes its chunk on top of what earlier pushes left in the
\* engine (Audio::play at speed 1 bypasses the engine).
C35_StretchStateCarriesOver ==
    [][\A id \in DOMAIN mediaPool :
          (last'.id = id /\ id \in DOMAIN mediaPool' /\ ~undefined')
          => /\ last'.op \in {"pause", "resume", "setVolume", "getCurrentTime"}
                => mediaPool'[id].stretch = mediaPool[id].stretch
             /\ last'.op = "play"
                => mediaPool'[id].stretch
                      \in {mediaPool[id].stretch, stretchProcess(mediaPool[id].stretch)}
             /\ (last'.op = "play" /\ last'.res # "true")
                => mediaPool'[id].stretch = mediaPool[id].stretch
             /\ (/\ last'.op = "play" /\ last'.res = "true" /\ last'.val > 0
                 /\ ~(variant = "audio"
                        /\ mediaPool[id].playbackSpeedFactor = [n |-> 1, d |-> 1]))
                => mediaPool'[id].stretch = stretchProcess(mediaPool[id].stretch)]_vars

\* a push has been accepted by an engine that had already processed a chunk
C35_Witness ==
    \E id \in DOMAIN mediaPool :
       /\ last.op = "play" /\ last.id = id /\ last.res = "true" /\ last.val > 0
       /\ mediaPool[id].stretch \notin {stretchReset, stretchProcess(stretchReset)}

\* C36: in the OpenAL revisions an accepted push leaves the source PLAYING,
\* whatever its state before; a push accepted on a Paused session resumes it.
C36_AcceptedPushPlays ==
    [][\A id \in DOMAIN mediaPool :
          (/\ variant # "stream"
           /\ last'.op = "play" /\ last'.id = id /\ last'.res = "true"
           /\ id \in DOMAIN mediaPool' /\ ~undefined')
          => SourceState(mediaPool'[id].source) = "PLAYING"]_vars

\* C37: start() of a Media object succeeds only on a session that is not
\* started: on a Playing or Paused session it returns false and leaves the
\* session as it is; a start() that returns true found the session neither
\* Playing nor Paused and leaves it Playing; and after a stop() that returned
\* true, start() succeeds again when the device opens and starts the stream.
C37_StartOnlyWhenNotStarted ==
    [][\A id \in DOMAIN mediaPool :
          (variant = "stream" /\ last'.id = id /\ id \in DOMAIN mediaPool')
          => /\ (last'.op = "start"
                   /\ PlaybackState(variant, mediaPool[id]) \in {"Playing", "Paused"})
                => (last'.res = "false" /\ mediaPool'[id] = mediaPool[id])
             /\ (last'.op = "start" /\ last'.res = "true")
                => /\ PlaybackState(variant, mediaPool[id]) \notin {"Playing", "Paused"}
                   /\ PlaybackState(variant, mediaPool'[id]) = "Playing"
             /\ (last'.op = "stop" /\ last'.res = "true")
                => LET r == MediaStart(mediaPool'[id], "paNoError") IN
                      r.res = "true" /\ PlaybackState(variant, r.m) = "Playing"]_vars

\* start() has just been refused on a session that is Paused
C37_Witness ==
    \E id \in DOMAIN mediaPool :
       /\ variant = "stream"
       /\ last.op = "start" /\ last.id = id /\ last.res = "false"
       /\ PlaybackState(variant, mediaPool[id]) = "Paused"

\* C38: the results of the transport calls of a Media object tell whether a
\* transition happened: pause() returns true exactly when the session went
\* from Playing to Paused, resume() exactly when it went from Paused to
\* Playing, stop() exactly when an active stream was aborted and closed; after
\* a false result the playback state is the one before the call.
C38_ResultReportsTransition ==
    [][\A id \in DOMAIN mediaPool :
          (variant = "stream" /\ last'.id = id /\ id \in DOMAIN mediaPool')
          => LET before == PlaybackState(variant, mediaPool[id])
                 after  == PlaybackState(variant, mediaPool'[id])
             IN  /\ last'.op = "pause"
                    => (last'.res = "true" <=> (before = "Playing" /\ after = "Paused"))
                 /\ last'.op = "resume"
                    => (last'.res = "true" <=> (before = "Paused" /\ after = "Playing"))
                 /\ last'.op = "stop"
                    => (last'.res = "true"
                          <=> (mediaPool[id].stream.state = "active"
                                 /\ mediaPool'[id].stream = nullptr))
                 /\ (last'.op \in {"pause", "resume", "stop"} /\ last'.res = "false")
                    => after = before]_vars

====
